---- MODULE Spec2Model ----
(***************************************************************************)
(* Model of qpandalite/circuit_builder/qcircuit.py: the Circuit / Fragment *)
(* template containers and the QProg container.                            *)
(*                                                                         *)
(* Circuits are heap objects with identity (heap[id]); gates are immutable *)
(* values.  An entry of a gate_list is either a gate value or a reference  *)
(* to a circuit object, so that aliasing between a parent and a nested     *)
(* circuit is part of the state.  The rotation angle of rx/ry/rz is an     *)
(* opaque payload of the external gate object that no code of this file    *)
(* reads; gates are identified by their operation and qubits.              *)
(***************************************************************************)
EXTENDS Integers, Sequences, FiniteSets, TLC

VARIABLES heap, last, calls, qprog, qlast

vars == <<heap, last, calls, qprog, qlast>>

(* ------------------------------ bounds -------------------------------- *)

MaxQubit == 1      \* qubit indices are 0..MaxQubit
MaxKw    == 2      \* keyword arguments of one assign call
MaxQLen  == 3      \* gates of the QProg
MaxCalls == 2      \* calls made on the circuits after Init

Qubits == 0..MaxQubit

(* ------------------------------ values -------------------------------- *)

NoneName == "None"

\* an entry of a gate_list: a gate value ...
GateObj(op, qs) == [kind |-> "gate", op |-> op, qubits |-> qs, circ |-> 0]

\* ... or a reference to a circuit object
CircRef(id) == [kind |-> "circuit", op |-> "circuit", qubits |-> <<>>, circ |-> id]

Rx(q) == GateObj("RX", <<q>>)

Ry(q) == GateObj("RY", <<q>>)

Rz(q) == GateObj("RZ", <<q>>)

Measure(q) == GateObj("MEASURE", <<q>>)

\* a qubit map (a dict) is a functional set of <<key, value>> pairs
NoMapping == [none |-> TRUE, kv |-> {}]

Keys(m) == {p[1] : p \in m}

MapGet(m, k) == (CHOOSE p \in m : p[1] = k)[2]

MapPut(m, k, v) == {p \in m : p[1] # k} \cup {<<k, v>>}

Range(s) == {s[i] : i \in DOMAIN s}

(* --------------------------- Circuit.__init__ ------------------------- *)

Circuit(name) ==
    [name            |-> IF name \in {NoneName, ""} THEN NoneName ELSE name,
     gate_list       |-> <<>>,
     involved_qubits |-> <<>>,
     fragment        |-> FALSE,
     expand          |-> TRUE,
     mapping         |-> NoMapping]

Fragment(name) == [Circuit(name) EXCEPT !.fragment = TRUE, !.expand = FALSE]

(* --------------------------- Circuit._append_gate --------------------- *)

RECURSIVE MergeQubits(_, _)
MergeQubits(inv, qs) ==
    IF qs = <<>> THEN inv
    ELSE MergeQubits(IF Head(qs) \in Range(inv) THEN inv ELSE Append(inv, Head(qs)),
                     Tail(qs))

_append_gate(c, gate_object) ==
    [c EXCEPT !.gate_list = Append(@, gate_object),
              !.involved_qubits = MergeQubits(@, gate_object.qubits)]

(* --------------------------- copy.deepcopy ---------------------------- *)

IsCirc(e) == e.kind = "circuit"

Refs(c) == {c.gate_list[i].circ : i \in {j \in DOMAIN c.gate_list : IsCirc(c.gate_list[j])}}

RECURSIVE ReachFrom(_, _)
ReachFrom(h, seen) ==
    LET more == seen \cup UNION {Refs(h[r]) : r \in seen}
    IN  IF more = seen THEN seen ELSE ReachFrom(h, more)

\* the circuit objects reachable from id through nested entries, id included
Reach(h, id) == ReachFrom(h, {id})

\* deepcopy(h[id]): every reachable circuit object is copied once (the memo),
\* references between the copies follow the references between the originals;
\* the copy of id itself takes the last new slot
deepcopy(h, id) ==
    LET R        == Reach(h, id)
        others   == R \ {id}
        newid(r) == IF r = id THEN Len(h) + Cardinality(R)
                    ELSE Len(h) + Cardinality({x \in others : x <= r})
        copy(r)  == [h[r] EXCEPT !.gate_list =
                       [i \in DOMAIN @ |-> IF IsCirc(@[i]) THEN CircRef(newid(@[i].circ))
                                           ELSE @[i]]]
        fresh    == [k \in 1..Cardinality(R) |->
                       copy(CHOOSE r \in R : newid(r) = Len(h) + k)]
    IN  [heap |-> h \o fresh, id |-> newid(id)]

(* --------------------------- Circuit._append_circuit ------------------ *)

\* result of a call: raised/err, the heap after it, the value returned, and
\* the two lists of the message of assign_by_map's error (Expect: / Get:)
Raise(h, e) == [raised |-> TRUE, err |-> e, heap |-> h, ret |-> 0,
                expect |-> <<>>, given |-> {}]

Return(h, r) == [raised |-> FALSE, err |-> "", heap |-> h, ret |-> r,
                 expect |-> <<>>, given |-> {}]

\* _append_circuit without the self-append copy
_append_circuit_nocopy(h, self, other, expand) ==
    IF h[other].fragment
    THEN Raise(h, "RuntimeError:fragment")
    ELSE
      LET merged == MergeQubits(h[self].involved_qubits, h[other].involved_qubits)
          gl     == IF expand \/ h[other].expand
                    THEN h[self].gate_list \o h[other].gate_list
                    ELSE Append(h[self].gate_list, CircRef(other))
      IN  Return([h EXCEPT ![self].involved_qubits = merged,
                           ![self].gate_list = gl], 0)

\* _append_circuit with the Fragment check after the merge of the qubits
_append_circuit_latecheck(h, self, other, expand) ==
    LET merged == MergeQubits(h[self].involved_qubits, h[other].involved_qubits)
        h1     == [h EXCEPT ![self].involved_qubits = merged]
    IN  IF h[other].fragment
        THEN Raise(h1, "RuntimeError:fragment")
        ELSE Return([h1 EXCEPT ![self].gate_list =
                        IF expand \/ h[other].expand
                        THEN h[self].gate_list \o h[other].gate_list
                        ELSE Append(h[self].gate_list, CircRef(other))], 0)

_append_circuit(h, self, other, expand) ==
    IF h[other].fragment
    THEN Raise(h, "RuntimeError:fragment")
    ELSE
      LET d      == IF other = self THEN deepcopy(h, other)
                    ELSE [heap |-> h, id |-> other]
          h1     == d.heap
          nc     == d.id
          merged == MergeQubits(h1[self].involved_qubits, h1[nc].involved_qubits)
          gl     == IF expand \/ h1[nc].expand
                    THEN h1[self].gate_list \o h1[nc].gate_list
                    ELSE Append(h1[self].gate_list, CircRef(nc))
          h2     == [h1 EXCEPT ![self].involved_qubits = merged,
                               ![self].gate_list = gl]
          \* the local copy is dropped when nothing refers to it after the call
          live   == \E r \in 1..Len(h2) : nc \in Refs(h2[r])
      IN  Return(IF other = self /\ ~live THEN SubSeq(h2, 1, Len(h2) - 1) ELSE h2, 0)

(* --------------------------- Circuit.append --------------------------- *)

\* object: [cls |-> "Circuit", id], [cls |-> "Gate", gate] or [cls |-> "other"]
\* kwargs: [given |-> whether expand= was passed, value |-> its value]
\* append with expand defaulting to True, the default of _append_circuit
append_default_true(h, self, object, kwargs) ==
    IF object.cls = "Circuit"
    THEN _append_circuit(h, self, object.id,
                         IF kwargs.given THEN kwargs.value ELSE TRUE)
    ELSE IF object.cls = "Gate"
    THEN Return([h EXCEPT ![self] = _append_gate(@, object.gate)], 0)
    ELSE Raise(h, "NotImplementedError")

append(h, self, object, kwargs) ==
    IF object.cls = "Circuit"
    THEN _append_circuit(h, self, object.id,
                         IF kwargs.given THEN kwargs.value ELSE FALSE)
    ELSE IF object.cls = "Gate"
    THEN Return([h EXCEPT ![self] = _append_gate(@, object.gate)], 0)
    ELSE Raise(h, "NotImplementedError")

(* --------------------------- Circuit.rx / ry / rz --------------------- *)

rx(h, self, qubit) == Return([h EXCEPT ![self] = _append_gate(@, Rx(qubit))], self)

ry(h, self, qubit) == Return([h EXCEPT ![self] = _append_gate(@, Ry(qubit))], self)

rz(h, self, qubit) == Return([h EXCEPT ![self] = _append_gate(@, Rz(qubit))], 0)

(* --------------------------- _check_qubit_key ------------------------- *)

Digit == ("0" :> 0) @@ ("1" :> 1) @@ ("2" :> 2) @@ ("3" :> 3) @@ ("4" :> 4) @@
         ("5" :> 5) @@ ("6" :> 6) @@ ("7" :> 7) @@ ("8" :> 8) @@ ("9" :> 9)

RECURSIVE DigitsValue(_, _)
DigitsValue(s, acc) ==
    IF s = <<>> THEN acc ELSE DigitsValue(Tail(s), 10 * acc + Digit[Head(s)])

AllDigits(s) == s # <<>> /\ \A i \in DOMAIN s : s[i] \in DOMAIN Digit

\* int(text) on texts of letters, digits and a sign: a value, or ValueError
IntOf(s) ==
    IF AllDigits(s) THEN [ok |-> TRUE, v |-> DigitsValue(s, 0)]
    ELSE IF s # <<>> /\ Head(s) = "-" /\ AllDigits(Tail(s))
    THEN [ok |-> TRUE, v |-> 0 - DigitsValue(Tail(s), 0)]
    ELSE IF s # <<>> /\ Head(s) = "+" /\ AllDigits(Tail(s))
    THEN [ok |-> TRUE, v |-> DigitsValue(Tail(s), 0)]
    ELSE [ok |-> FALSE, v |-> 0]

\* [ok |-> FALSE] is the None result
_check_qubit_key(qubit_key) ==
    IF qubit_key = <<>> \/ Head(qubit_key) # "q"
    THEN [ok |-> FALSE, v |-> 0]
    ELSE IntOf(Tail(qubit_key))

(* --------------------------- qubit map parsing ------------------------ *)

KeyNQubit == <<"n", "_", "q", "u", "b", "i", "t">>

\* kwargs: a sequence of [key, value]; value is [int |-> isinstance(v, int), v]
RECURSIVE ParseKwargs(_, _)
ParseKwargs(kwargs, qubit_map) ==
    IF kwargs = <<>> THEN [raised |-> FALSE, err |-> "", map |-> qubit_map]
    ELSE
      LET key == Head(kwargs).key
          val == Head(kwargs).value
          q   == _check_qubit_key(key)
      IN  IF key = KeyNQubit THEN ParseKwargs(Tail(kwargs), qubit_map)
          ELSE IF ~q.ok THEN [raised |-> TRUE, err |-> "RuntimeError:key", map |-> {}]
          ELSE IF ~val.int THEN [raised |-> TRUE, err |-> "RuntimeError:value", map |-> {}]
          ELSE ParseKwargs(Tail(kwargs), MapPut(qubit_map, q.v, val.v))

_parse_qubit_map_from_kwargs(kwargs) == ParseKwargs(kwargs, {})

\* args: [form |-> "none" (no positional argument), "varargs" or "list", items]
_parse_qubit_map_from_list(args) ==
    IF args.form = "none"
    THEN [raised |-> TRUE, err |-> "RuntimeError:fatal", map |-> {}]
    ELSE [raised |-> FALSE, err |-> "",
          map |-> {<<i - 1, args.items[i]>> : i \in DOMAIN args.items}]

(* --------------------------- Circuit.assign_by_map -------------------- *)

_check_qubit_map(c, qubit_map) ==
    \A i \in DOMAIN c.involved_qubits : c.involved_qubits[i] \in Keys(qubit_map)

\* the external gate's assign_by_map: a new gate bound to the mapped qubits
GateAssignByMap(gate, qubit_map) ==
    [gate EXCEPT !.qubits = [i \in DOMAIN @ |-> MapGet(qubit_map, @[i])]]

RECURSIVE AssignByMapRec(_, _, _, _)
RECURSIVE AssignLoop(_, _, _, _, _)

\* the for loop of assign_by_map over the entries gl still to process
AssignLoop(h, gl, qubit_map, ret, active) ==
    IF gl = <<>> THEN [raised |-> FALSE, err |-> "", expect |-> <<>>, circ |-> ret]
    ELSE IF ~IsCirc(Head(gl))
    THEN AssignLoop(h, Tail(gl), qubit_map,
                    _append_gate(ret, GateAssignByMap(Head(gl), qubit_map)), active)
    ELSE
      \* a nested entry: its assign_by_map is Circuit.assign_by_map again, and
      \* _append_gate then calls involved_qubits(), a list, on its result
      LET r == AssignByMapRec(h, Head(gl).circ, qubit_map, active)
      IN  IF r.raised
          THEN [r EXCEPT !.err = IF @ = "RuntimeError:cover"
                                 THEN "RuntimeError:cover:nested" ELSE @]
          ELSE [raised |-> TRUE, err |-> "TypeError", expect |-> <<>>, circ |-> ret]

AssignByMapRec(h, self, qubit_map, active) ==
    LET ret == Circuit(h[self].name)
    IN  IF self \in active
        THEN [raised |-> TRUE, err |-> "RecursionError", expect |-> <<>>, circ |-> ret]
        ELSE IF ~_check_qubit_map(h[self], qubit_map)
        THEN [raised |-> TRUE, err |-> "RuntimeError:cover",
              expect |-> ret.involved_qubits, circ |-> ret]
        ELSE AssignLoop(h, h[self].gate_list, qubit_map,
                        [ret EXCEPT !.mapping = [none |-> FALSE, kv |-> qubit_map]],
                        active \cup {self})

\* assign_by_map that fills self instead of a new circuit (ret = self)
assign_by_map_inplace(h, self, qubit_map) ==
    IF ~_check_qubit_map(h[self], qubit_map)
    THEN [Raise(h, "RuntimeError:cover") EXCEPT
            !.expect = h[self].involved_qubits, !.given = qubit_map]
    ELSE LET r == AssignLoop(h, h[self].gate_list, qubit_map,
                             [h[self] EXCEPT !.mapping = [none |-> FALSE, kv |-> qubit_map]],
                             {self})
         IN  IF r.raised THEN [Raise(h, r.err) EXCEPT !.given = qubit_map]
             ELSE [Return([h EXCEPT ![self] = r.circ], self) EXCEPT !.given = qubit_map]

\* the new circuit takes the next free slot of the heap
assign_by_map(h, self, qubit_map) ==
    LET r == AssignByMapRec(h, self, qubit_map, {})
    IN  IF r.raised
        THEN [Raise(h, r.err) EXCEPT !.expect = r.expect, !.given = qubit_map]
        ELSE [Return(Append(h, r.circ), Len(h) + 1) EXCEPT !.given = qubit_map]

(* --------------------------- Circuit.assign / Fragment.assign --------- *)

\* assign that always takes the list mode (len(args) >= 0)
assign_list_mode(h, self, args, kwargs) ==
    LET p == _parse_qubit_map_from_list(args)
    IN  IF p.raised THEN Raise(h, p.err)
        ELSE LET r == assign_by_map(h, self, p.map)
             IN  IF h[self].fragment /\ ~r.raised
                 THEN [r EXCEPT !.heap[r.ret].expand = FALSE]
                 ELSE r

assign(h, self, args, kwargs) ==
    LET p == IF args.form # "none" THEN _parse_qubit_map_from_list(args)
             ELSE _parse_qubit_map_from_kwargs(kwargs)
    IN  IF p.raised THEN Raise(h, p.err)
        ELSE LET r == assign_by_map(h, self, p.map)
             IN  IF h[self].fragment /\ ~r.raised
                 THEN [r EXCEPT !.heap[r.ret].expand = FALSE]
                 ELSE r

(* --------------------------- QProg ------------------------------------ *)

QProg(n_qubit, n_cbit) ==
    [n_qubit |-> n_qubit, n_cbit |-> n_cbit, gate_list |-> <<>>, has_measure |-> FALSE]

QProg_append(p, gate) == [p EXCEPT !.gate_list = Append(@, gate)]

\* TRUE when dagger() raises
QProg_dagger(p) == p.has_measure

(* ------------------------------ record of the last call --------------- *)

NoKw == [given |-> FALSE, value |-> FALSE]

\* op: the method called on circuit self; other, expand: the circuit and the
\* expand keyword handed to append; raised/err: how the call ended; ret: the
\* circuit returned (0 for None); expect: the qubits the error message lists
\* as expected; zero: assign got no usable argument
NoCall ==
    [op |-> "none", self |-> 0, other |-> 0, expand |-> NoKw,
     raised |-> FALSE, err |-> "", ret |-> 0, expect |-> <<>>, zero |-> FALSE]

Ids == 1..Len(heap)

Called(op, self, r) ==
    [NoCall EXCEPT !.op = op, !.self = self, !.raised = r.raised, !.err = r.err,
                   !.ret = r.ret, !.expect = r.expect]

(* ------------------------------ inputs -------------------------------- *)

ExpandArgs == {NoKw, [given |-> TRUE, value |-> TRUE], [given |-> TRUE, value |-> FALSE]}

CNOT(a, b) == GateObj("CNOT", <<a, b>>)

\* what append() is handed: a circuit, a gate, or something else
Objects ==
    {[cls |-> "Circuit", id |-> id, gate |-> Rx(0)] : id \in Ids}
      \cup {[cls |-> "Gate", id |-> 0, gate |-> CNOT(0, MaxQubit)]}
      \cup {[cls |-> "other", id |-> 0, gate |-> Rx(0)]}

\* the lists of all qubits, in both orders, and their prefixes
Up == [i \in 1..(MaxQubit + 1) |-> i - 1]

Down == [i \in 1..(MaxQubit + 1) |-> MaxQubit + 1 - i]

QubitLists == {SubSeq(s, 1, n) : s \in {Up, Down}, n \in 0..(MaxQubit + 1)}

PosArgs ==
    {[form |-> "none", items |-> <<>>]}
      \cup {[form |-> "list", items |-> s] : s \in QubitLists}
      \cup {[form |-> "varargs", items |-> s] : s \in QubitLists \ {<<>>}}

DigitChar == <<"0", "1", "2", "3", "4", "5", "6", "7", "8", "9">>

QKey(q) == <<"q", DigitChar[q + 1]>>

KwPairs ==
    {[key |-> QKey(q), value |-> [int |-> TRUE, v |-> MaxQubit - q]] : q \in Qubits}
      \cup {[key |-> QKey(0), value |-> [int |-> FALSE, v |-> 0]],
            [key |-> <<"x", "0">>, value |-> [int |-> TRUE, v |-> 0]],
            [key |-> <<"q", "x">>, value |-> [int |-> TRUE, v |-> 0]],
            [key |-> KeyNQubit, value |-> [int |-> TRUE, v |-> MaxQubit + 1]]}

KwArgs ==
    {kw \in UNION {[1..n -> KwPairs] : n \in 0..MaxKw} :
        \A i \in DOMAIN kw, j \in DOMAIN kw : i < j => kw[i].key # kw[j].key}

MapOf(s) == {<<i - 1, s[i]>> : i \in DOMAIN s}

\* the maps of the qubit lists, and a map that sends every qubit to qubit 0
MapArgs ==
    {MapOf(s) : s \in QubitLists} \cup {{<<q, 0>> : q \in Qubits}}

\* no positional argument and no q<int> keyword
ZeroUsable(args, kwargs) ==
    /\ args.form = "none"
    /\ \A i \in DOMAIN kwargs : kwargs[i].key = KeyNQubit

(* ------------------------------ actions ------------------------------- *)

\* the receiver of a builder call is a circuit held by the caller, or the
\* value the previous builder call returned when that value is None (a chain)
Receivers ==
    Ids \cup {c \in {0} : last.op \in {"rx", "ry", "rz"} /\ ~last.raised /\ last.ret = 0}

Do(r, call) ==
    /\ heap' = r.heap
    /\ last' = call
    /\ calls' = calls + 1
    /\ UNCHANGED <<qprog, qlast>>

CallRx ==
    /\ calls < MaxCalls
    /\ \E self \in Receivers, qubit \in Qubits :
        LET r == IF self = 0 THEN Raise(heap, "AttributeError")
                 ELSE rx(heap, self, qubit)
        IN  Do(r, Called("rx", self, r))

CallRy ==
    /\ calls < MaxCalls
    /\ \E self \in Receivers, qubit \in Qubits :
        LET r == IF self = 0 THEN Raise(heap, "AttributeError")
                 ELSE ry(heap, self, qubit)
        IN  Do(r, Called("ry", self, r))

CallRz ==
    /\ calls < MaxCalls
    /\ \E self \in Receivers, qubit \in Qubits :
        LET r == IF self = 0 THEN Raise(heap, "AttributeError")
                 ELSE rz(heap, self, qubit)
        IN  Do(r, Called("rz", self, r))

CallAppend ==
    /\ calls < MaxCalls
    /\ \E self \in Ids, object \in Objects, kwargs \in ExpandArgs :
        /\ object.cls # "Circuit" => kwargs = NoKw
        /\ LET r == append(heap, self, object, kwargs)
           IN  Do(r, [Called("append", self, r) EXCEPT
                        !.other = object.id, !.expand = kwargs])

CallAssign ==
    /\ calls < MaxCalls
    /\ \E self \in Ids, args \in PosArgs, kwargs \in KwArgs :
        /\ args.form # "none" => kwargs = <<>>
        /\ LET r == assign(heap, self, args, kwargs)
           IN  Do(r, [Called("assign", self, r) EXCEPT
                        !.zero = ZeroUsable(args, kwargs)])

CallAssignByMap ==
    /\ calls < MaxCalls
    /\ \E self \in Ids, qubit_map \in MapArgs :
        LET r == assign_by_map(heap, self, qubit_map)
        IN  Do(r, Called("assign_by_map", self, r))

\* after construction: F = Fragment('f'), A = Circuit() and B = F.assign([]),
\* the one way to a circuit that is no Fragment and has expand = False
InitHeap ==
    assign(<<Fragment("f"), Circuit(NoneName)>>, 1,
           [form |-> "list", items |-> <<>>], <<>>).heap

Init ==
    /\ heap = InitHeap
    /\ last = NoCall
    /\ calls = 0
    /\ qprog = QProg(1, 0)
    /\ qlast = [op |-> "QProg", raised |-> FALSE]

Next ==
    \/ CallRx
    \/ CallRy
    \/ CallRz
    \/ CallAppend
    \/ CallAssign
    \/ CallAssignByMap

Spec == Init /\ [][Next]_vars

(* ------------------------------ QProg specification ------------------- *)

QGates == {Rx(q) : q \in Qubits} \cup {Measure(q) : q \in Qubits}

QAppend ==
    /\ Len(qprog.gate_list) < MaxQLen
    /\ \E gate \in QGates :
         /\ qprog' = QProg_append(qprog, gate)
         /\ qlast' = [op |-> "append", raised |-> FALSE]
    /\ UNCHANGED <<heap, last, calls>>

QDagger ==
    /\ qprog' = qprog
    /\ qlast' = [op |-> "dagger", raised |-> QProg_dagger(qprog)]
    /\ UNCHANGED <<heap, last, calls>>

InitQProg ==
    /\ heap = <<>>
    /\ last = NoCall
    /\ calls = 0
    /\ \E n_qubit \in 0..2, n_cbit \in 0..1 : qprog = QProg(n_qubit, n_cbit)
    /\ qlast = [op |-> "QProg", raised |-> FALSE]

NextQProg == QAppend \/ QDagger

SpecQProg == InitQProg /\ [][NextQProg]_vars

(* ====================================================================== *)
(* Properties                                                             *)
(* ====================================================================== *)

\* the qubits of the gates of circuit id and, recursively, of its nested circuits
EntryQubits(h, id) ==
    UNION {UNION {Range(h[r].gate_list[i].qubits) : i \in DOMAIN h[r].gate_list} :
             r \in Reach(h, id)}

NoDuplicates(s) == \A i \in DOMAIN s, j \in DOMAIN s : s[i] = s[j] => i = j

\* the value of the expand keyword of the last append
ExpandOf(call) == IF call.expand.given THEN call.expand.value ELSE FALSE

\* gate g2 is gate g1 with every qubit q replaced by m[q]
IsSubstituted(g2, g1, m) ==
    /\ g2.kind = g1.kind
    /\ g2.op = g1.op
    /\ Len(g2.qubits) = Len(g1.qubits)
    /\ \A k \in DOMAIN g1.qubits : <<g1.qubits[k], g2.qubits[k]>> \in m

\* entry e2 of the heap h2 is a copy of entry e1 of the heap h1: the same gate,
\* or a circuit object that h1 does not hold and that has the content of e1's
IsCopy(h2, e2, h1, e1) ==
    IF IsCirc(e1)
    THEN /\ IsCirc(e2)
         /\ e2.circ \notin 1..Len(h1)
         /\ h2[e2.circ].involved_qubits = h1[e1.circ].involved_qubits
         /\ Len(h2[e2.circ].gate_list) = Len(h1[e1.circ].gate_list)
         /\ h2[e2.circ].expand = h1[e1.circ].expand
    ELSE e2 = e1

(* ------------------------------ C1 ------------------------------------ *)

\* C1: in every reachable state, every qubit referenced by an entry of a
\* circuit's gate_list (a gate, or recursively the gates of a nested circuit
\* entry) is a member of that circuit's involved_qubits.
C1_InvolvedQubitsCoverEntries ==
    \A id \in Ids : EntryQubits(heap, id) \subseteq Range(heap[id].involved_qubits)

(* ------------------------------ C2 ------------------------------------ *)

\* C2: assign_by_map with a map that has a key for every involved qubit
\* succeeds, and the new circuit's gate_list has the length of the original's
\* and holds, entry for entry, the original's entries with the qubits replaced
\* through the map (nested circuit entries included).
C2_AssignByMapSubstitutes ==
    (last.op = "assign_by_map" /\ last.err # "RuntimeError:cover") =>
        /\ ~last.raised
        /\ LET c == heap[last.self]
               n == heap[last.ret]
           IN  /\ Len(n.gate_list) = Len(c.gate_list)
               /\ \A i \in DOMAIN c.gate_list :
                    IF IsCirc(c.gate_list[i]) THEN IsCirc(n.gate_list[i])
                    ELSE IsSubstituted(n.gate_list[i], c.gate_list[i], n.mapping.kv)

(* ------------------------------ C3 ------------------------------------ *)

\* C3: a call of assign or assign_by_map changes no circuit that existed
\* before it (gate_list, involved_qubits, name, expand and mapping of the
\* receiver included), the circuit it returns is a new object, and a later
\* append or builder call on one circuit changes no other existing circuit.
C3_AssignLeavesCircuitUnchanged ==
    [][/\ last'.op \in {"assign", "assign_by_map"} =>
            /\ \A id \in Ids : heap'[id] = heap[id]
            /\ ~last'.raised => last'.ret \notin Ids /\ last'.ret \in 1..Len(heap')
       /\ last'.op \in {"append", "rx", "ry", "rz"} =>
            \A id \in Ids \ {last'.self} : heap'[id] = heap[id]]_vars

\* an assign returned for a circuit that holds gates
C3_AssignedCircuitWithGates ==
    /\ last.op \in {"assign", "assign_by_map"}
    /\ ~last.raised
    /\ heap[last.self].gate_list # <<>>
    /\ Len(heap[last.ret].gate_list) = Len(heap[last.self].gate_list)

(* ------------------------------ C4 ------------------------------------ *)

\* C4: A.append(A) on a circuit that is no Fragment does not raise, leaves
\* involved_qubits as it was (no duplicates), keeps the earlier entries, and
\* adds, when flattened, a copy of every entry of the list as it was before the
\* call, and when nested, one entry: a new circuit, not A, with the content A
\* had before the call.
C4_SelfAppendUsesSnapshot ==
    [][(last'.op = "append" /\ last'.self # 0 /\ last'.other = last'.self
          /\ ~heap[last'.self].fragment) =>
        LET pre  == heap[last'.self]
            post == heap'[last'.self]
            n    == Len(pre.gate_list)
        IN  /\ ~last'.raised
            /\ post.involved_qubits = pre.involved_qubits
            /\ NoDuplicates(post.involved_qubits)
            /\ Len(post.gate_list) >= n
            /\ SubSeq(post.gate_list, 1, n) = pre.gate_list
            /\ IF ExpandOf(last') \/ pre.expand
               THEN /\ Len(post.gate_list) = 2 * n
                    /\ \A i \in 1..n :
                         IsCopy(heap', post.gate_list[n + i], heap, pre.gate_list[i])
               ELSE /\ Len(post.gate_list) = n + 1
                    /\ IsCirc(post.gate_list[n + 1])
                    /\ post.gate_list[n + 1].circ # last'.self
                    /\ IsCopy(heap', post.gate_list[n + 1], heap, CircRef(last'.self))
                    /\ LET copy == heap'[post.gate_list[n + 1].circ]
                       IN  \A i \in 1..n :
                             IsCopy(heap', copy.gate_list[i], heap, pre.gate_list[i])]_vars

\* a circuit that holds a gate was appended to itself as a nested entry
C4_SelfAppendedNested ==
    /\ last.op = "append" /\ last.self # 0 /\ last.other = last.self
    /\ ~last.raised
    /\ LET gl == heap[last.self].gate_list
       IN  /\ Len(gl) >= 2
           /\ ~IsCirc(gl[1])
           /\ IsCirc(gl[Len(gl)])

(* ------------------------------ C5 ------------------------------------ *)

C7_CoverErrorListsInvolvedQubits ==
    (last.op = "assign_by_map" /\ last.raised /\ last.err = "RuntimeError:cover") =>
        last.expect = heap[last.self].involved_qubits

(* ------------------------------ C9 ------------------------------------ *)

\* C9: assign with no positional argument and no q<int> keyword raises for
\* every circuit, a circuit with an empty gate_list included.
C9_ZeroArgumentsAlwaysRaise ==
    (last.op = "assign" /\ last.zero) => last.raised

\* C9 (amended): assign with no positional argument and no q<int> keyword
\* raises when the circuit has an involved qubit, and returns a new circuit
\* with an empty gate_list when the circuit's gate_list is empty.
C9_ZeroArgumentsRaiseIfInvolved ==
    (last.op = "assign" /\ last.zero) =>
        /\ heap[last.self].involved_qubits # <<>> => last.raised
        /\ heap[last.self].gate_list = <<>> =>
             /\ ~last.raised
             /\ last.ret # last.self
             /\ heap[last.ret].gate_list = <<>>
             /\ heap[last.ret].involved_qubits = <<>>

\* assign without arguments returned for a circuit with an empty gate_list
C9_ZeroArgumentsReturned ==
    /\ last.op = "assign" /\ last.zero
    /\ ~last.raised
    /\ heap[last.self].gate_list = <<>>

(* ------------------------------ C10 ----------------------------------- *)

BuilderGate == [rx |-> "RX", ry |-> "RY", rz |-> "RZ"]

\* C10: a call of rx, ry or rz, also one made on the value the previous
\* builder call returned, does not raise, returns the circuit it was called on
\* and leaves its gate as the last entry of gate_list.
C10_BuildersReturnSelf ==
    last.op \in {"rx", "ry", "rz"} =>
        /\ ~last.raised
        /\ last.ret = last.self
        /\ LET gl == heap[last.self].gate_list
           IN  gl # <<>> /\ gl[Len(gl)].op = BuilderGate[last.op]

(* ------------------------------ C8 ------------------------------------ *)

HasMeasureGate == \E i \in DOMAIN qprog.gate_list : qprog.gate_list[i].op = "MEASURE"

\* C8: once a measurement gate has been appended to the QProg, has_measure is
\* true and dagger() raises; before that dagger() does not raise.
C8_MeasureForbidsDagger ==
    /\ HasMeasureGate => qprog.has_measure
    /\ (HasMeasureGate /\ qlast.op = "dagger") => qlast.raised
    /\ (~HasMeasureGate /\ qlast.op = "dagger") => ~qlast.raised

====
